---- MODULE Spec2Model ----
(***************************************************************************)
(* Crashlytics alert -> Microsoft Teams notification handlers.             *)
(*                                                                         *)
(* Models the three Cloud Function handlers of the repository:             *)
(*   "velocity"            sendVelocityAlertToTeams of part_000, built on  *)
(*                         buildTeamsCard and sendToTeams;                 *)
(*   "nonfatal"            sendNonFatalIssueToTeams of part_000;           *)
(*   "velocityStandalone"  sendVelocityAlertToTeams of                     *)
(*                         crashlytics_velocity_alert_teams.js, with the   *)
(*                         card and the delivery inlined.                  *)
(*                                                                         *)
(* JavaScript values are tagged records (undefined, null, string, number), *)
(* so that truthiness tests, || defaults, String() and template literals   *)
(* are computed as JavaScript computes them.  The module is ASCII: an      *)
(* emoji glyph of the source is written as its name in brackets.           *)
(***************************************************************************)
EXTENDS Integers, Sequences, FiniteSets, TLC

(***************************************************************************)
(* Bounds of the model.                                                    *)
(***************************************************************************)
\* Number of invocations the platform runs concurrently (SpecConc).
NumInv == 2
\* Largest wall-clock reading; new Date() returns a value in 0..MaxClock.
MaxClock == 1

(***************************************************************************)
(* JavaScript values.                                                      *)
(***************************************************************************)
Undef == [t |-> "undefined"]
Null == [t |-> "null"]
Str(s) == [t |-> "string", s |-> s]
\* A number with one decimal digit of precision, held as its count of tenths.
Num(k) == [t |-> "number", tenths |-> k]

IsString(v) == v.t = "string"

\* ToBoolean: undefined, null, "" and 0 are falsy.
Truthy(v) ==
    CASE v.t = "undefined" -> FALSE
      [] v.t = "null" -> FALSE
      [] v.t = "string" -> v.s # ""
      [] v.t = "number" -> v.tenths # 0
      [] OTHER -> TRUE

OrLeft(a, b) == a
\* a || b
Or(a, b) == IF Truthy(a) THEN a ELSE b

Digits == <<"0", "1", "2", "3", "4", "5", "6", "7", "8", "9">>

RECURSIVE NatToString(_)
NatToString(n) ==
    IF n < 10 THEN Digits[n + 1]
    ELSE NatToString(n \div 10) \o Digits[(n % 10) + 1]

\* Number::toString for a number given in tenths: "42", "3.5", "0", "-1".
NumberToString(k) ==
    LET a == IF k < 0 THEN -k ELSE k
        whole == NatToString(a \div 10)
        frac == IF a % 10 = 0 THEN "" ELSE "." \o Digits[(a % 10) + 1]
    IN (IF k < 0 THEN "-" ELSE "") \o whole \o frac

\* ToString, as applied by String(v) and by `${v}`.
ToStr(v) ==
    CASE v.t = "undefined" -> "undefined"
      [] v.t = "null" -> "null"
      [] v.t = "string" -> v.s
      [] v.t = "number" -> NumberToString(v.tenths)

(***************************************************************************)
(* Dates.  A time value is a second of the model's day, 0..9.              *)
(***************************************************************************)
TimeValues == 0..9

\* The ISO-8601 text the alerting platform writes for a time value.
IsoOf(tv) == "2024-01-01T00:00:0" \o Digits[tv + 1] \o "Z"

\* new Date(createTime) for an ISO string: the time value it denotes.
DateParse(v) == CHOOSE tv \in TimeValues : IsoOf(tv) = v.s

\* Date.prototype.toLocaleString().
ToLocaleString(tv) == "1/1/2024, 12:00:0" \o Digits[tv + 1] \o " AM"

(***************************************************************************)
(* Events delivered by the alerting platform.                              *)
(***************************************************************************)
\* The (appId, issue id) pairs of the apps that raise alerts.
Sources == {[appId |-> Str("app1"), issueId |-> Str("I1")],
            [appId |-> Str("app2"), issueId |-> Str("I2")]}
IssueTitles == {Undef, Null, Str(""), Str("NPE")}
IssueSubtitles == {Undef, Str(""), Str("at Foo.bar")}
AppVersions == {Undef, Str(""), Str("2.1.0")}
CreateTimes == {Undef, Str(IsoOf(1))}
CrashCounts == {Undef, Num(0), Num(420)}
CrashPercentages == {Undef, Num(0), Num(35)}
FirstVersions == {Undef, Str("2.0.9")}

\* payload.issue: an issue object, or undefined when the payload carries none.
IssuesOf(src) ==
    {[t |-> "object", id |-> src.issueId, title |-> ti, subtitle |-> su,
      appVersion |-> av] :
        ti \in IssueTitles, su \in IssueSubtitles, av \in AppVersions}
    \cup {Undef}

VelocityEvents ==
    UNION {{[appId |-> src.appId,
             payload |-> [issue |-> is, createTime |-> ct, crashCount |-> cc,
                          crashPercentage |-> cp, firstVersion |-> fv]] :
               is \in IssuesOf(src), ct \in CreateTimes, cc \in CrashCounts,
               cp \in CrashPercentages, fv \in FirstVersions} : src \in Sources}

NonFatalEvents ==
    UNION {{[appId |-> src.appId, payload |-> [issue |-> is, createTime |-> ct]] :
               is \in IssuesOf(src), ct \in CreateTimes} : src \in Sources}

Handlers == {"velocity", "nonfatal", "velocityStandalone"}
IsVelocity(h) == h \in {"velocity", "velocityStandalone"}
EventsOf(h) == IF IsVelocity(h) THEN VelocityEvents ELSE NonFatalEvents

(***************************************************************************)
(* Field normalisation and the card.                                       *)
(***************************************************************************)
ConsoleLinkSwapped(appId, issue) ==
    Str("https://console.firebase.google.com/project/_/crashlytics/app/"
        \o ToStr(issue.id) \o "/issues/" \o ToStr(appId))
\* `https://console.firebase.google.com/project/_/crashlytics/app/${appId}/issues/${issue.id}`
ConsoleLink(appId, issue) ==
    Str("https://console.firebase.google.com/project/_/crashlytics/app/"
        \o ToStr(appId) \o "/issues/" \o ToStr(issue.id))

\* crashCount ? String(crashCount) : "N/A"
CrashCountValue(crashCount) ==
    IF Truthy(crashCount) THEN Str(ToStr(crashCount)) ELSE Str("N/A")

\* crashPercentage ? `${crashPercentage}%` : "N/A"
CrashPercentageValue(crashPercentage) ==
    IF Truthy(crashPercentage) THEN Str(ToStr(crashPercentage) \o "%") ELSE Str("N/A")

TimeValueNoFallback(createTime, clock) ==
    IF Truthy(createTime) THEN Str(ToLocaleString(DateParse(createTime)))
    ELSE Str("N/A")
\* createTime ? new Date(createTime).toLocaleString() : new Date().toLocaleString()
\* clock is what new Date() returns when it is called.
TimeValue(createTime, clock) ==
    IF Truthy(createTime) THEN Str(ToLocaleString(DateParse(createTime)))
    ELSE Str(ToLocaleString(clock))

Fact(title, value) == [title |-> title, value |-> value]

VelocityFactsReordered(appId, p, clock) ==
    << Fact("[boom] Crash Count", CrashCountValue(p.crashCount)),
       Fact("[bar_chart] Sessions Affected", CrashPercentageValue(p.crashPercentage)),
       Fact("[iphone] App Version", Or(p.issue.appVersion, Str("N/A"))),
       Fact("[label] First Seen In", Or(p.firstVersion, Str("N/A"))),
       Fact("[package] App ID", Or(appId, Str("N/A"))),
       Fact("[id] Issue ID", Or(p.issue.id, Str("N/A"))),
       Fact("[clock1] Alert Time", TimeValue(p.createTime, clock)) >>
\* The facts of the velocity alert.
VelocityFacts(appId, p, clock) ==
    << Fact("[boom] Crash Count", CrashCountValue(p.crashCount)),
       Fact("[bar_chart] Sessions Affected", CrashPercentageValue(p.crashPercentage)),
       Fact("[iphone] App Version", Or(p.issue.appVersion, Str("N/A"))),
       Fact("[label] First Seen In", Or(p.firstVersion, Str("N/A"))),
       Fact("[id] Issue ID", Or(p.issue.id, Str("N/A"))),
       Fact("[package] App ID", Or(appId, Str("N/A"))),
       Fact("[clock1] Alert Time", TimeValue(p.createTime, clock)) >>

\* The facts of the new non-fatal issue alert.
NonFatalFacts(appId, p, clock) ==
    << Fact("[id] Issue ID", Or(p.issue.id, Str("N/A"))),
       Fact("[iphone] App Version", Or(p.issue.appVersion, Str("N/A"))),
       Fact("[package] App ID", Or(appId, Str("N/A"))),
       Fact("[clock1] Detected At", TimeValue(p.createTime, clock)) >>

HeaderBlock(emoji, title, subtitle, accentColor) ==
    [type |-> "ColumnSet",
     columns |-> <<
        [type |-> "Column", width |-> "auto",
         items |-> << [type |-> "TextBlock", text |-> emoji, size |-> "ExtraLarge"] >>],
        [type |-> "Column", width |-> "stretch",
         items |-> << [type |-> "TextBlock", text |-> title, weight |-> "Bolder",
                       size |-> "Large", color |-> accentColor],
                      [type |-> "TextBlock", text |-> subtitle, spacing |-> "None",
                       isSubtle |-> TRUE] >>] >>]

IssueTitleBlock(issueTitle) ==
    [type |-> "TextBlock", text |-> Or(issueTitle, Str("Unknown issue")),
     weight |-> "Bolder", size |-> "Medium", wrap |-> TRUE, spacing |-> "Medium"]

IssueSubtitleBlock(issueSubtitle) ==
    [type |-> "TextBlock", text |-> issueSubtitle, isSubtle |-> TRUE, wrap |-> TRUE,
     spacing |-> "None"]

SubtitleBlocksAlways(issueSubtitle) == << IssueSubtitleBlock(issueSubtitle) >>
\* ...(issueSubtitle ? [{ ... }] : [])
SubtitleBlocks(issueSubtitle) ==
    IF Truthy(issueSubtitle) THEN << IssueSubtitleBlock(issueSubtitle) >> ELSE << >>

SeparatorBlock ==
    [type |-> "ColumnSet", separator |-> TRUE, spacing |-> "Medium", columns |-> << >>]

FactSetBlock(facts) == [type |-> "FactSet", facts |-> facts]

CardBody(emoji, title, subtitle, issueTitle, issueSubtitle, facts, accentColor) ==
    << HeaderBlock(emoji, title, subtitle, accentColor), IssueTitleBlock(issueTitle) >>
    \o SubtitleBlocks(issueSubtitle)
    \o << SeparatorBlock, FactSetBlock(facts) >>

Envelope(body, actions) ==
    [type |-> "message",
     attachments |-> <<
        [contentType |-> "application/vnd.microsoft.card.adaptive",
         content |-> [schema |-> "http://adaptivecards.io/schemas/adaptive-card.json",
                      type |-> "AdaptiveCard", version |-> "1.4",
                      body |-> body, actions |-> actions]] >>]

\* buildTeamsCard({ emoji, title, subtitle, issueTitle, issueSubtitle, facts,
\*                  consoleLink, accentColor })
buildTeamsCard(c) ==
    Envelope(CardBody(c.emoji, c.title, c.subtitle, c.issueTitle, c.issueSubtitle,
                      c.facts, c.accentColor),
             << [type |-> "Action.OpenUrl", title |-> "[mag] View in Firebase Console",
                 url |-> c.consoleLink] >>)

\* teamsMessage of sendVelocityAlertToTeams (part_000).
VelocityMessage(e, clock) ==
    buildTeamsCard([emoji |-> "[fire]",
                    title |-> "Crashlytics Velocity Alert",
                    subtitle |-> "A crash issue is rapidly impacting users",
                    issueTitle |-> e.payload.issue.title,
                    issueSubtitle |-> e.payload.issue.subtitle,
                    facts |-> VelocityFacts(e.appId, e.payload, clock),
                    consoleLink |-> ConsoleLink(e.appId, e.payload.issue),
                    accentColor |-> "Attention"])

\* teamsMessage of sendNonFatalIssueToTeams (part_000).
NonFatalMessage(e, clock) ==
    buildTeamsCard([emoji |-> "[warning]",
                    title |-> "New Non-Fatal Issue Detected",
                    subtitle |-> "Crashlytics found a new non-fatal error in your app",
                    issueTitle |-> e.payload.issue.title,
                    issueSubtitle |-> e.payload.issue.subtitle,
                    facts |-> NonFatalFacts(e.appId, e.payload, clock),
                    consoleLink |-> ConsoleLink(e.appId, e.payload.issue),
                    accentColor |-> "Warning"])

\* The FactSet facts of the standalone sendVelocityAlertToTeams.
StandaloneVelocityFacts(appId, p, clock) ==
    << Fact("[boom] Crash Count",
            IF Truthy(p.crashCount) THEN Str(ToStr(p.crashCount)) ELSE Str("N/A")),
       Fact("[bar_chart] Sessions Affected",
            IF Truthy(p.crashPercentage) THEN Str(ToStr(p.crashPercentage) \o "%")
            ELSE Str("N/A")),
       Fact("[iphone] App Version", Or(p.issue.appVersion, Str("N/A"))),
       Fact("[label] First Seen In", Or(p.firstVersion, Str("N/A"))),
       Fact("[id] Issue ID", Or(p.issue.id, Str("N/A"))),
       Fact("[package] App ID", Or(appId, Str("N/A"))),
       Fact("[clock1] Alert Time",
            IF Truthy(p.createTime) THEN Str(ToLocaleString(DateParse(p.createTime)))
            ELSE Str(ToLocaleString(clock))) >>

\* The card body of the standalone sendVelocityAlertToTeams.
StandaloneBody(e, clock) ==
    << [type |-> "ColumnSet",
        columns |-> <<
           [type |-> "Column", width |-> "auto",
            items |-> << [type |-> "TextBlock", text |-> "[fire]",
                          size |-> "ExtraLarge"] >>],
           [type |-> "Column", width |-> "stretch",
            items |-> << [type |-> "TextBlock", text |-> "Crashlytics Velocity Alert",
                          weight |-> "Bolder", size |-> "Large", color |-> "Attention"],
                         [type |-> "TextBlock",
                          text |-> "A crash issue is rapidly impacting users",
                          spacing |-> "None", isSubtle |-> TRUE] >>] >>],
       [type |-> "TextBlock", text |-> Or(e.payload.issue.title, Str("Unknown issue")),
        weight |-> "Bolder", size |-> "Medium", wrap |-> TRUE, spacing |-> "Medium"] >>
    \o (IF Truthy(e.payload.issue.subtitle)
        THEN << [type |-> "TextBlock", text |-> e.payload.issue.subtitle,
                 isSubtle |-> TRUE, wrap |-> TRUE, spacing |-> "None"] >>
        ELSE << >>)
    \o << [type |-> "ColumnSet", separator |-> TRUE, spacing |-> "Medium",
           columns |-> << >>],
          [type |-> "FactSet",
           facts |-> StandaloneVelocityFacts(e.appId, e.payload, clock)] >>

\* teamsMessage of the standalone sendVelocityAlertToTeams, the card inlined.
StandaloneVelocityMessage(e, clock) ==
    [type |-> "message",
     attachments |-> <<
        [contentType |-> "application/vnd.microsoft.card.adaptive",
         content |-> [schema |-> "http://adaptivecards.io/schemas/adaptive-card.json",
                      type |-> "AdaptiveCard", version |-> "1.4",
                      body |-> StandaloneBody(e, clock),
                      actions |-> <<
                         [type |-> "Action.OpenUrl",
                          title |-> "[mag] View in Firebase Console",
                          url |-> Str("https://console.firebase.google.com/project/_/crashlytics/app/"
                                      \o ToStr(e.appId) \o "/issues/"
                                      \o ToStr(e.payload.issue.id)),
                          style |-> "destructive"] >>]] >>]

\* The document handler h builds for event e.
TeamsMessage(h, e, clock) ==
    CASE h = "velocity" -> VelocityMessage(e, clock)
      [] h = "nonfatal" -> NonFatalMessage(e, clock)
      [] h = "velocityStandalone" -> StandaloneVelocityMessage(e, clock)

(***************************************************************************)
(* The webhook endpoint and axios.                                         *)
(***************************************************************************)
\* What the endpoint does with a POST: an HTTP reply, or no reply at all.
Replies ==
    {[transport |-> "ok", status |-> 200, data |-> Str("1")],
     [transport |-> "ok", status |-> 500, data |-> Str("Internal Server Error")],
     [transport |-> "ok", status |-> 429, data |-> Str("")],
     [transport |-> "failed"]}

\* axios.post settles: resolved with the response for a 2xx status, rejected with
\* an AxiosError carrying the response for any other status, rejected with an
\* AxiosError without a response when the transport failed.
AxiosSettle(reply) ==
    IF reply.transport = "failed"
    THEN [kind |-> "rejected",
          error |-> [name |-> "AxiosError", message |-> Str("Network Error"),
                     response |-> Undef]]
    ELSE IF reply.status >= 200 /\ reply.status < 300
    THEN [kind |-> "resolved",
          response |-> [t |-> "object", status |-> reply.status, data |-> reply.data]]
    ELSE [kind |-> "rejected",
          error |-> [name |-> "AxiosError",
                     message |-> Str("Request failed with status code "
                                     \o NatToString(reply.status)),
                     response |-> [t |-> "object", status |-> reply.status,
                                   data |-> reply.data]]]

Unsettled == [kind |-> "none"]

\* The TypeError of reading issue.id when payload.issue is undefined.
IssueTypeError ==
    [name |-> "TypeError",
     message |-> Str("Cannot read properties of undefined (reading 'id')")]

(***************************************************************************)
(* Log entries.                                                            *)
(***************************************************************************)
LogEntry(level, msg, arg) == [level |-> level, msg |-> msg, arg |-> arg]

\* logger.info(<receipt message>, event.data.payload)
ReceiptEntry(h, e) ==
    LogEntry("info",
             IF IsVelocity(h) THEN "[rotating_light] Crashlytics velocity alert received"
             ELSE "[warning] Crashlytics new non-fatal issue received",
             e.payload)

\* logger.info(<success message>, response.status)
SuccessEntry(h, response) ==
    LogEntry("info",
             IF h = "velocityStandalone"
             THEN "[check] Teams notification sent successfully. Status:"
             ELSE "[check] Teams notification sent. Status:",
             response.status)

\* error.response?.data
ResponseData(error) == IF error.response = Undef THEN Undef ELSE error.response.data

ErrorEntryMessageOnly(h, error) ==
    LogEntry("error", "[x] Failed to send Teams notification:", error.message)
\* logger.error("Failed to send Teams notification:", error.response?.data || error.message)
ErrorEntry(h, error) ==
    LogEntry("error", "[x] Failed to send Teams notification:",
             Or(ResponseData(error), error.message))

(***************************************************************************)
(* State.                                                                  *)
(***************************************************************************)
Inv == 1..NumInv

VARIABLES
    pc,        \* pc[i]: where invocation i is: "idle", "received" (receipt logged),
               \*        "awaiting" (suspended at await axios.post), "done"
    handler,   \* handler[i]: the handler the platform invoked
    event,     \* event[i]: the event it was invoked with
    now,       \* the wall clock: the latest reading any new Date() returned
    clock,     \* clock[i]: what new Date() returned to invocation i
    posts,     \* posts[i]: the documents invocation i has POSTed, in order
    inflight,  \* inflight[i]: a POST of invocation i is outstanding
    settled,   \* settled[i]: how the axios.post promise of invocation i settled
    outcome,   \* outcome[i]: the handler's promise: pending, fulfilled, rejected
    log        \* log[i]: the log entries invocation i has written, in order

vars == <<pc, handler, event, now, clock, posts, inflight, settled, outcome, log>>

Pending == [state |-> "pending"]
Fulfilled == [state |-> "fulfilled"]
Rejected(error) == [state |-> "rejected", error |-> error]

Init ==
    /\ pc = [i \in Inv |-> "idle"]
    /\ handler = [i \in Inv |-> "none"]
    /\ event = [i \in Inv |-> Undef]
    /\ now = 0
    /\ clock = [i \in Inv |-> 0]
    /\ posts = [i \in Inv |-> << >>]
    /\ inflight = [i \in Inv |-> FALSE]
    /\ settled = [i \in Inv |-> Unsettled]
    /\ outcome = [i \in Inv |-> Pending]
    /\ log = [i \in Inv |-> << >>]

(***************************************************************************)
(* The handlers, step by step.                                             *)
(***************************************************************************)
HandlerEventShared(i) ==
    event[CHOOSE j \in Inv : pc[j] # "idle" /\ handler[j] = handler[i]]
\* The `event` parameter of invocation i's handler closure.
HandlerEvent(i) == event[i]

ReceiveNoReceipt(i, h, e) ==
    /\ pc[i] = "idle"
    /\ handler' = [handler EXCEPT ![i] = h]
    /\ event' = [event EXCEPT ![i] = e]
    /\ pc' = [pc EXCEPT ![i] = "received"]
    /\ UNCHANGED <<now, clock, posts, inflight, settled, outcome, log>>
\* The platform invokes handler h with event e; the handler logs the receipt.
Receive(i, h, e) ==
    /\ pc[i] = "idle"
    /\ handler' = [handler EXCEPT ![i] = h]
    /\ event' = [event EXCEPT ![i] = e]
    /\ log' = [log EXCEPT ![i] = Append(@, ReceiptEntry(h, e))]
    /\ pc' = [pc EXCEPT ![i] = "received"]
    /\ UNCHANGED <<now, clock, posts, inflight, settled, outcome>>

\* payload.issue is undefined: reading issue.id for the console link throws,
\* and the async handler's promise rejects with the TypeError.
ThrowOnMissingIssue(i) ==
    /\ pc[i] = "received"
    /\ HandlerEvent(i).payload.issue = Undef
    /\ outcome' = [outcome EXCEPT ![i] = Rejected(IssueTypeError)]
    /\ pc' = [pc EXCEPT ![i] = "done"]
    /\ UNCHANGED <<handler, event, now, clock, posts, inflight, settled, log>>

\* The readings new Date() may return: none is taken when createTime is truthy.
ClockReadings(i) ==
    IF Truthy(HandlerEvent(i).payload.createTime) THEN {now} ELSE now..MaxClock

BuildAndPostNoAwait(i) ==
    /\ pc[i] = "received"
    /\ HandlerEvent(i).payload.issue # Undef
    /\ \E t \in ClockReadings(i) :
          /\ now' = t
          /\ clock' = [clock EXCEPT ![i] = t]
          /\ posts' = [posts EXCEPT
                          ![i] = Append(@, TeamsMessage(handler[i], HandlerEvent(i), t))]
    /\ inflight' = [inflight EXCEPT ![i] = TRUE]
    /\ outcome' = [outcome EXCEPT ![i] = Fulfilled]
    /\ pc' = [pc EXCEPT ![i] = "done"]
    /\ UNCHANGED <<handler, event, settled, log>>
\* The handler builds the document and calls axios.post with it, then suspends
\* at the await until the POST settles.
BuildAndPost(i) ==
    /\ pc[i] = "received"
    /\ HandlerEvent(i).payload.issue # Undef
    /\ \E t \in ClockReadings(i) :
          /\ now' = t
          /\ clock' = [clock EXCEPT ![i] = t]
          /\ posts' = [posts EXCEPT
                          ![i] = Append(@, TeamsMessage(handler[i], HandlerEvent(i), t))]
    /\ inflight' = [inflight EXCEPT ![i] = TRUE]
    /\ pc' = [pc EXCEPT ![i] = "awaiting"]
    /\ UNCHANGED <<handler, event, settled, outcome, log>>

\* The endpoint answers (or the transport fails): the axios.post promise settles.
Respond(i, reply) ==
    /\ pc[i] = "awaiting"
    /\ inflight[i]
    /\ inflight' = [inflight EXCEPT ![i] = FALSE]
    /\ settled' = [settled EXCEPT ![i] = AxiosSettle(reply)]
    /\ UNCHANGED <<pc, handler, event, now, clock, posts, outcome, log>>

\* The await resumes with the response: the status is logged, the handler returns.
LogSuccess(i) ==
    /\ pc[i] = "awaiting"
    /\ settled[i].kind = "resolved"
    /\ log' = [log EXCEPT ![i] = Append(@, SuccessEntry(handler[i], settled[i].response))]
    /\ outcome' = [outcome EXCEPT ![i] = Fulfilled]
    /\ pc' = [pc EXCEPT ![i] = "done"]
    /\ UNCHANGED <<handler, event, now, clock, posts, inflight, settled>>

CatchErrorSwallow(i) ==
    /\ pc[i] = "awaiting"
    /\ settled[i].kind = "rejected"
    /\ log' = [log EXCEPT ![i] = Append(@, ErrorEntry(handler[i], settled[i].error))]
    /\ outcome' = [outcome EXCEPT ![i] = Fulfilled]
    /\ pc' = [pc EXCEPT ![i] = "done"]
    /\ UNCHANGED <<handler, event, now, clock, posts, inflight, settled>>
CatchErrorRetry(i) ==
    /\ pc[i] = "awaiting"
    /\ settled[i].kind = "rejected"
    /\ log' = [log EXCEPT ![i] = Append(@, ErrorEntry(handler[i], settled[i].error))]
    /\ settled' = [settled EXCEPT ![i] = Unsettled]
    /\ pc' = [pc EXCEPT ![i] = "received"]
    /\ UNCHANGED <<handler, event, now, clock, posts, inflight, outcome>>
\* The await throws the rejection: the catch block logs it and rethrows it, and
\* the handler's promise rejects with that error.
CatchError(i) ==
    /\ pc[i] = "awaiting"
    /\ settled[i].kind = "rejected"
    /\ log' = [log EXCEPT ![i] = Append(@, ErrorEntry(handler[i], settled[i].error))]
    /\ outcome' = [outcome EXCEPT ![i] = Rejected(settled[i].error)]
    /\ pc' = [pc EXCEPT ![i] = "done"]
    /\ UNCHANGED <<handler, event, now, clock, posts, inflight, settled>>

(***************************************************************************)
(* Spec: one invocation, any handler, any event, any reply.                *)
(***************************************************************************)
Next ==
    \/ \E h \in Handlers : \E e \in EventsOf(h) : Receive(1, h, e)
    \/ ThrowOnMissingIssue(1)
    \/ BuildAndPost(1)
    \/ \E reply \in Replies : Respond(1, reply)
    \/ LogSuccess(1)
    \/ CatchError(1)

Spec == Init /\ [][Next]_vars

(***************************************************************************)
(* SpecConc: NumInv invocations whose steps interleave in any order.       *)
(***************************************************************************)
\* A velocity alert with a full payload.
FullVelocityEvent ==
    [appId |-> Str("app1"),
     payload |-> [issue |-> [t |-> "object", id |-> Str("I1"), title |-> Str("NPE"),
                             subtitle |-> Str("at Foo.bar"), appVersion |-> Str("2.1.0")],
                  createTime |-> Str(IsoOf(1)), crashCount |-> Num(420),
                  crashPercentage |-> Num(35), firstVersion |-> Str("2.0.9")]]

SparseVelocityEvent ==
    [appId |-> Str("app2"),
     payload |-> [issue |-> [t |-> "object", id |-> Str("I2"), title |-> Undef,
                             subtitle |-> Str(""), appVersion |-> Undef],
                  createTime |-> Undef, crashCount |-> Num(0),
                  crashPercentage |-> Undef, firstVersion |-> Undef]]

\* A new non-fatal issue without appVersion and createTime.
SparseNonFatalEvent ==
    [appId |-> Str("app2"),
     payload |-> [issue |-> [t |-> "object", id |-> Str("I2"), title |-> Str("NPE"),
                             subtitle |-> Undef, appVersion |-> Undef],
                  createTime |-> Undef]]

NoIssueEvent == [appId |-> Str("app1"), payload |-> [issue |-> Undef, createTime |-> Undef]]

ConcCalls ==
    {[h |-> "velocity", e |-> FullVelocityEvent],
     [h |-> "velocity", e |-> SparseVelocityEvent],
     [h |-> "velocityStandalone", e |-> SparseVelocityEvent],
     [h |-> "nonfatal", e |-> SparseNonFatalEvent],
     [h |-> "nonfatal", e |-> NoIssueEvent]}

ConcReplies == {r \in Replies : r.transport = "failed" \/ r.status = 200}

NextConc ==
    \E i \in Inv :
        \/ \E c \in ConcCalls : Receive(i, c.h, c.e)
        \/ ThrowOnMissingIssue(i)
        \/ BuildAndPost(i)
        \/ \E reply \in ConcReplies : Respond(i, reply)
        \/ LogSuccess(i)
        \/ CatchError(i)

SpecConc == Init /\ [][NextConc]_vars

(***************************************************************************)
(* Reading a posted document.                                              *)
(***************************************************************************)
HasPosted(i) == posts[i] # << >>
PostedDoc(i) == posts[i][1]
DocContent(doc) == doc.attachments[1].content
DocBody(doc) == DocContent(doc).body
DocActions(doc) == DocContent(doc).actions
IsFactSet(b) == b.type = "FactSet"
\* The facts of the document's FactSet block.
DocFacts(doc) == SelectSeq(DocBody(doc), IsFactSet)[1].facts
FactTitles(facts) == [k \in 1..Len(facts) |-> facts[k].title]
\* The value of the fact labelled `title`.
FactValue(doc, title) ==
    LET f == DocFacts(doc)
    IN f[CHOOSE k \in 1..Len(f) : f[k].title = title].value
\* A payload field that is absent: undefined (no such key) or null.
Absent(v) == v \in {Undef, Null}
NonEmptyString(v) == IsString(v) /\ v.s # ""
HasIssue(i) == event[i].payload.issue # Undef

BlockKind(b) ==
    CASE b.type = "FactSet" -> "facts"
      [] b.type = "ColumnSet" /\ "separator" \in DOMAIN b -> "separator"
      [] b.type = "ColumnSet" -> "header"
      [] b.type = "TextBlock" /\ "weight" \in DOMAIN b -> "issueTitle"
      [] b.type = "TextBlock" -> "issueSubtitle"
BodyKinds(doc) == [k \in 1..Len(DocBody(doc)) |-> BlockKind(DocBody(doc)[k])]

(***************************************************************************)
(* Claims.                                                                 *)
(***************************************************************************)

\* C1: for an event whose payload carries an issue object, the invocation ends
\* rejected if and only if its webhook POST was rejected, it is rejected with
\* the very error the POST raised, and a resolved POST ends it fulfilled.
C1_FailsIffPostFailed ==
    \A i \in Inv :
        (pc[i] = "done" /\ HasIssue(i)) =>
            /\ settled[i].kind \in {"resolved", "rejected"}
            /\ (outcome[i].state = "rejected") <=> (settled[i].kind = "rejected")
            /\ settled[i].kind = "rejected" => outcome[i] = Rejected(settled[i].error)
            /\ settled[i].kind = "resolved" => outcome[i] = Fulfilled

\* A handler that ended rejected after the endpoint answered HTTP 500.
C1_Witness ==
    /\ pc[1] = "done"
    /\ HasIssue(1)
    /\ settled[1].kind = "rejected"
    /\ settled[1].error.response # Undef
    /\ settled[1].error.response.status = 500
    /\ outcome[1].state = "rejected"

\* C2: an invocation issues at most one webhook POST, whether the POST failed
\* or succeeded: posts[i] holds every POST the invocation ever issued.
C2_AtMostOnePost == \A i \in Inv : Len(posts[i]) <= 1

\* A handler that completed after its one POST failed.
C2_Witness ==
    /\ pc[1] = "done"
    /\ Len(posts[1]) = 1
    /\ settled[1].kind = "rejected"

\* C3: an invocation is never completed (fulfilled or rejected) while its POST
\* is outstanding, and one that issued a POST completes only once it settled.
C3_CompletesAfterPostSettles ==
    \A i \in Inv :
        (outcome[i].state # "pending" \/ pc[i] = "done") =>
            /\ ~inflight[i]
            /\ HasPosted(i) => settled[i].kind \in {"resolved", "rejected"}

\* A handler that completed after the POST it issued has resolved.
C3_Witness ==
    /\ outcome[1].state = "fulfilled"
    /\ HasPosted(1)
    /\ settled[1].kind = "resolved"

\* C4: in every posted document each fact value is a non-empty string, a fact
\* whose source field is absent (the time fact aside) is "N/A", and the issue
\* title text is a non-empty string, "Unknown issue" when issue.title is absent.
C4_DefaultsForAbsentFields ==
    \A i \in Inv :
        HasPosted(i) =>
            LET doc == PostedDoc(i)
                p == event[i].payload
                facts == DocFacts(doc)
                titleText == DocBody(doc)[2].text
            IN /\ \A k \in 1..Len(facts) : NonEmptyString(facts[k].value)
               /\ Absent(p.issue.appVersion) =>
                     FactValue(doc, "[iphone] App Version") = Str("N/A")
               /\ IsVelocity(handler[i]) =>
                     /\ Absent(p.crashCount) =>
                           FactValue(doc, "[boom] Crash Count") = Str("N/A")
                     /\ Absent(p.crashPercentage) =>
                           FactValue(doc, "[bar_chart] Sessions Affected") = Str("N/A")
                     /\ Absent(p.firstVersion) =>
                           FactValue(doc, "[label] First Seen In") = Str("N/A")
               /\ NonEmptyString(titleText)
               /\ Absent(p.issue.title) => titleText = Str("Unknown issue")

\* A velocity document posted for an event with every optional field absent.
C4_Witness ==
    /\ HasPosted(1)
    /\ IsVelocity(handler[1])
    /\ \A v \in {event[1].payload.issue.title, event[1].payload.issue.subtitle,
                 event[1].payload.issue.appVersion, event[1].payload.createTime,
                 event[1].payload.crashCount, event[1].payload.crashPercentage,
                 event[1].payload.firstVersion} : Absent(v)

\* C5: in the velocity handlers a present crashCount (zero included) is shown
\* as its decimal string and a present crashPercentage (zero included) as its
\* string followed by "%"; "N/A" is shown only for an absent field.
C5_PresentNumbersAreShown ==
    \A i \in Inv :
        (HasPosted(i) /\ IsVelocity(handler[i])) =>
            LET doc == PostedDoc(i)
                p == event[i].payload
                count == FactValue(doc, "[boom] Crash Count")
                percent == FactValue(doc, "[bar_chart] Sessions Affected")
            IN /\ ~Absent(p.crashCount) => count = Str(ToStr(p.crashCount))
               /\ ~Absent(p.crashPercentage) =>
                     percent = Str(ToStr(p.crashPercentage) \o "%")
               /\ count = Str("N/A") => Absent(p.crashCount)
               /\ percent = Str("N/A") => Absent(p.crashPercentage)

\* C6: the body of every posted document holds the issue-subtitle block if and
\* only if issue.subtitle is a non-empty string: then it is exactly header, issue
\* title, issue subtitle (with that text), separator, FactSet; otherwise exactly
\* header, issue title, separator, FactSet.
C6_SubtitleBlockIffNonEmpty ==
    \A i \in Inv :
        HasPosted(i) =>
            LET doc == PostedDoc(i)
                sub == event[i].payload.issue.subtitle
            IN IF NonEmptyString(sub)
               THEN /\ BodyKinds(doc) =
                          <<"header", "issueTitle", "issueSubtitle", "separator", "facts">>
                    /\ DocBody(doc)[3].text = sub
               ELSE BodyKinds(doc) = <<"header", "issueTitle", "separator", "facts">>

\* A document posted for an event whose issue.subtitle is the empty string.
C6_Witness ==
    /\ HasPosted(1)
    /\ event[1].payload.issue.subtitle = Str("")
    /\ Len(DocBody(PostedDoc(1))) = 4

\* C7: the FactSet of every posted document lists the facts of its alert kind
\* in the fixed order (7 for velocity, 4 for new-non-fatal), whatever fields
\* the event carries, and the card holds exactly the facts the handler built.
C7_FactsInFixedOrder ==
    \A i \in Inv :
        HasPosted(i) =>
            LET doc == PostedDoc(i)
                e == event[i]
            IN /\ Len(SelectSeq(DocBody(doc), IsFactSet)) = 1
               /\ IsVelocity(handler[i]) =>
                     FactTitles(DocFacts(doc)) =
                        <<"[boom] Crash Count", "[bar_chart] Sessions Affected",
                          "[iphone] App Version", "[label] First Seen In",
                          "[id] Issue ID", "[package] App ID", "[clock1] Alert Time">>
               /\ handler[i] = "nonfatal" =>
                     FactTitles(DocFacts(doc)) =
                        <<"[id] Issue ID", "[iphone] App Version", "[package] App ID",
                          "[clock1] Detected At">>
               /\ handler[i] = "velocity" =>
                     DocFacts(doc) = VelocityFacts(e.appId, e.payload, clock[i])
               /\ handler[i] = "nonfatal" =>
                     DocFacts(doc) = NonFatalFacts(e.appId, e.payload, clock[i])

\* A velocity document posted for an event that carries only some of its fields.
C7_Witness ==
    /\ HasPosted(1)
    /\ handler[1] = "velocity"
    /\ Absent(event[1].payload.crashCount)
    /\ ~Absent(event[1].payload.firstVersion)
    /\ Len(DocFacts(PostedDoc(1))) = 7

\* C8: every posted document has exactly one action, an Action.OpenUrl whose
\* url is the console prefix, the applicationId, "/issues/" and the issue id,
\* the same two identifiers the App ID and Issue ID facts show.
C8_ConsoleLink ==
    \A i \in Inv :
        HasPosted(i) =>
            LET doc == PostedDoc(i)
                appId == FactValue(doc, "[package] App ID")
                issueId == FactValue(doc, "[id] Issue ID")
            IN /\ Len(DocActions(doc)) = 1
               /\ DocActions(doc)[1].type = "Action.OpenUrl"
               /\ appId = event[i].appId
               /\ issueId = event[i].payload.issue.id
               /\ DocActions(doc)[1].url =
                     Str("https://console.firebase.google.com/project/_/crashlytics/app/"
                         \o appId.s \o "/issues/" \o issueId.s)

\* A document posted for issue I2 of app2 carries the link to that issue.
C8_Witness ==
    /\ HasPosted(1)
    /\ event[1].appId = Str("app2")
    /\ DocActions(PostedDoc(1))[1].url =
          Str("https://console.firebase.google.com/project/_/crashlytics/app/app2/issues/I2")

\* C9: the time fact, the last fact of every posted document, is the formatting
\* of createTime when the payload carries one and the same formatting of the
\* wall-clock reading taken by the invocation when it does not; never "N/A".
C9_TimeFact ==
    \A i \in Inv :
        HasPosted(i) =>
            LET facts == DocFacts(PostedDoc(i))
                last == facts[Len(facts)]
                createTime == event[i].payload.createTime
            IN /\ last.title = (IF IsVelocity(handler[i]) THEN "[clock1] Alert Time"
                                ELSE "[clock1] Detected At")
               /\ ~Absent(createTime) =>
                     last.value = Str(ToLocaleString(DateParse(createTime)))
               /\ Absent(createTime) =>
                     /\ last.value = Str(ToLocaleString(clock[i]))
                     /\ clock[i] \in 0..now
               /\ last.value # Str("N/A")

\* A document posted without createTime shows the clock reading 12:00:01 AM.
C9_Witness ==
    /\ HasPosted(1)
    /\ Absent(event[1].payload.createTime)
    /\ clock[1] = 1
    /\ FactValue(PostedDoc(1), IF IsVelocity(handler[1]) THEN "[clock1] Alert Time"
                               ELSE "[clock1] Detected At")
          = Str("1/1/2024, 12:00:01 AM")

\* The outcome an invocation reports, from its own event and its own POST.
OwnOutcome(i) ==
    IF ~HasIssue(i) THEN Rejected(IssueTypeError)
    ELSE IF settled[i].kind = "resolved" THEN Fulfilled
    ELSE IF settled[i].kind = "rejected" THEN Rejected(settled[i].error)
    ELSE Pending

\* C10: with invocations interleaved in any order, the document an invocation
\* posts is the one its own handler builds from its own event and clock reading,
\* and the outcome it reports is decided by its own event and its own POST.
C10_InvocationsIndependent ==
    \A i \in Inv :
        /\ HasPosted(i) =>
              posts[i] = << TeamsMessage(handler[i], event[i], clock[i]) >>
        /\ pc[i] = "done" => outcome[i] = OwnOutcome(i)
        /\ pc[i] # "done" => outcome[i] = Pending

\* Two invocations with different events: the delivery of one failed and it is
\* rejected, the other posted its own document and is fulfilled.
C10_Witness ==
    /\ pc[1] = "done" /\ pc[2] = "done"
    /\ event[1] # event[2]
    /\ HasPosted(1) /\ HasPosted(2)
    /\ settled[1].kind = "rejected" /\ outcome[1].state = "rejected"
    /\ settled[2].kind = "resolved" /\ outcome[2] = Fulfilled
    /\ FactValue(PostedDoc(2), "[package] App ID") = event[2].appId

\* The entries an invocation wrote after its receipt entry.
OutcomeEntries(i) == SubSeq(log[i], 2, Len(log[i]))
\* The failure carries a response body: a response with a non-empty body.
BodyAvailable(error) == error.response # Undef /\ NonEmptyString(error.response.data)

\* C11: a delivery attempt writes exactly one outcome log entry once its POST
\* has settled and the handler resumed: for a resolved POST an info entry with
\* the numeric response status; for a rejected POST an error entry with the
\* response body when one is available and with the error's message otherwise.
\* No outcome entry is written before that.
C11_OneOutcomeLogEntry ==
    \A i \in Inv :
        HasPosted(i) =>
            IF pc[i] # "done" THEN OutcomeEntries(i) = << >>
            ELSE /\ Len(OutcomeEntries(i)) = 1
                 /\ LET entry == OutcomeEntries(i)[1]
                    IN /\ settled[i].kind = "resolved" =>
                             /\ entry.level = "info"
                             /\ entry.arg = settled[i].response.status
                             /\ entry.arg \in 200..299
                       /\ settled[i].kind = "rejected" =>
                             /\ entry.level = "error"
                             /\ entry.arg =
                                   (IF BodyAvailable(settled[i].error)
                                    THEN settled[i].error.response.data
                                    ELSE settled[i].error.message)

\* A delivery answered HTTP 500 with a body: the one outcome entry is the error
\* entry carrying that body.
C11_Witness ==
    /\ pc[1] = "done"
    /\ HasPosted(1)
    /\ settled[1].kind = "rejected"
    /\ BodyAvailable(settled[1].error)
    /\ OutcomeEntries(1) =
          << LogEntry("error", "[x] Failed to send Teams notification:",
                      Str("Internal Server Error")) >>

\* Invocation i ran the velocity handler built on buildTeamsCard and sendToTeams,
\* invocation j the standalone velocity handler, on the same event, and both
\* posted with the same wall-clock reading.
SameVelocityCall(i, j) ==
    /\ handler[i] = "velocity"
    /\ handler[j] = "velocityStandalone"
    /\ event[i] = event[j]
    /\ HasPosted(i) /\ HasPosted(j)
    /\ clock[i] = clock[j]

\* C12: the velocity handler built on buildTeamsCard and sendToTeams and the
\* standalone velocity handler are equivalent: for the same event they post the
\* same document, and for the same webhook response they report the same outcome.
C12_VelocityHandlersEquivalent ==
    \A i, j \in Inv :
        SameVelocityCall(i, j) =>
            /\ PostedDoc(i) = PostedDoc(j)
            /\ (pc[i] = "done" /\ pc[j] = "done" /\ settled[i] = settled[j]) =>
                  outcome[i] = outcome[j]

\* How far invocation i has come, read off its histories: which of the five
\* events (receipt logged, POST issued, POST settled, outcome logged, handler
\* completed) have happened.
Happened(i) ==
    << Len(log[i]) >= 1,
       HasPosted(i),
       settled[i].kind \in {"resolved", "rejected"},
       Len(log[i]) >= 2,
       outcome[i].state # "pending" >>

\* C13: in every invocation the receipt entry for the event payload is logged
\* first, then the fully built document is POSTed, then the POST settles, then
\* the outcome entry is logged, then the handler completes: at every moment the
\* events that have happened are an initial part of that order (log and posts
\* only grow), no POST is issued before the receipt entry and no outcome entry
\* is written before the POST has settled.
C13_OrderOfEvents ==
    \A i \in Inv :
        /\ HasPosted(i) =>
              /\ \A k \in 2..5 : Happened(i)[k] => Happened(i)[k - 1]
              /\ log[i][1] = ReceiptEntry(handler[i], event[i])
              /\ log[i][1].arg = event[i].payload
              /\ PostedDoc(i) = TeamsMessage(handler[i], event[i], clock[i])
        /\ Len(log[i]) >= 2 =>
              /\ HasPosted(i)
              /\ ~inflight[i]
              /\ settled[i].kind \in {"resolved", "rejected"}
              /\ log[i][2].level = (IF settled[i].kind = "resolved" THEN "info" ELSE "error")
        /\ (pc[i] = "done" /\ HasPosted(i)) => Happened(i) = <<TRUE, TRUE, TRUE, TRUE, TRUE>>
        /\ Len(log[i]) <= 2

\* An invocation whose POST has resolved and whose success entry is not yet
\* written: the receipt entry is its only log entry.
C13_Witness ==
    /\ pc[1] = "awaiting"
    /\ settled[1].kind = "resolved"
    /\ Len(log[1]) = 1
    /\ log[1][1].level = "info"
    /\ outcome[1] = Pending

====
